---------------------------- MODULE Spec2Model ----------------------------
(***************************************************************************)
(* A model of cnvlib/export.py: the probe merge generator, the chromosome  *)
(* ID mapper, and the SEG, BED, VCF and THetA encoders with the format     *)
(* table.  Each encoder is one state machine over its own variables; a     *)
(* specification runs one of them and leaves the others idle.              *)
(***************************************************************************)
EXTENDS Integers, Sequences, FiniteSets, TLC

VARIABLES
    \* create_chrom_ids (lines 146-154)
    chromosome,   \* the chromosome column being walked
    ids_i,        \* number of names of the column consumed so far
    mapping,      \* the OrderedDict: a sequence of <<name, id>> in insertion order
    curr_idx,     \* next ID to hand out
    ids_pc,       \* "idle" | "loop" | "returned"
    \* export_seg (lines 112-143)
    seg_read,     \* the samples CNA.read has returned so far, in file order
    chrom_ids,    \* <<>> for None, <<m>> once the first sample's mapping is stored
    outheader,    \* <<>> while unbound, <<header>> once assigned
    outrows,      \* the rows collected so far
    seg_pc,       \* "idle" | "loop" | "returned" | "raised"
    seg_ret,      \* <<>> until return, then <<header, rows>>
    \* export_theta (lines 194-225)
    theta_in,     \* the chromosome and log2 of the segments by_segment has yielded
    prev_chrom,   \* <<>> for None, else <<name>>
    chrom_id,
    theta_rows,   \* outrows
    theta_pc,     \* "idle" | "loop" | "returned"
    \* segments2bed (lines 181-188) and segments2vcf (lines 319-355)
    py,           \* major version of the interpreter running the module: 2 or 3
    encoder,      \* "bed" | "vcf" | "none"
    ploidy,
    show_neutral,
    arg_sample_id,\* args.sample_id; "" when not given
    absolutes,    \* the values call.absolute_pure gave, in quarters, consumed so far
    ncopies,      \* the values the local ncopies took, one per segment consumed
    call_rows,    \* the rows or records yielded so far
    call_pc,      \* "idle" | "loop"
    \* merge_samples (lines 17-37), a generator
    nfiles,       \* len(filenames)
    merge_pc,     \* "idle" | "created" | "suspended" | "done" | "failed" | "closed"
                  \* | "open_failed"
    handles,      \* the handles opened so far, each "open" or "closed"
    rows_in,      \* the row tuple zip gave last, <<>> before the first
    merged,       \* <<>> or <<the row yielded last>>
    nyield,       \* rows yielded so far
    merge_exc,    \* "" or the error the generator raised
    \* the format table (lines 360-369) and the fmt_* functions (lines 67-96)
    selected,     \* the format name looked up, "" when none
    callee,       \* <<>> or <<the function found or called>>
    fmt_ids,      \* the sample_ids argument
    fmt_rows,     \* the rows argument
    fmt_result,   \* <<>> or <<what the lookup or the call gave>>
    fmt_pc        \* "idle" | "start" | "resolved" | "raised" | "returned"

idVars    == <<chromosome, ids_i, mapping, curr_idx, ids_pc>>
segVars   == <<seg_read, chrom_ids, outheader, outrows, seg_pc, seg_ret>>
thetaVars == <<theta_in, prev_chrom, chrom_id, theta_rows, theta_pc>>
callVars  == <<py, encoder, ploidy, show_neutral, arg_sample_id, absolutes,
               ncopies, call_rows, call_pc>>
mergeVars == <<nfiles, merge_pc, handles, rows_in, merged, nyield, merge_exc>>
fmtVars   == <<selected, callee, fmt_ids, fmt_rows, fmt_result, fmt_pc>>
vars      == <<idVars, segVars, thetaVars, callVars, mergeVars, fmtVars>>

notIds   == <<segVars, thetaVars, callVars, mergeVars, fmtVars>>
notSeg   == <<idVars, thetaVars, callVars, mergeVars, fmtVars>>
notTheta == <<idVars, segVars, callVars, mergeVars, fmtVars>>
notCall  == <<idVars, segVars, thetaVars, mergeVars, fmtVars>>
notMerge == <<idVars, segVars, thetaVars, callVars, fmtVars>>
notFmt   == <<idVars, segVars, thetaVars, callVars, mergeVars>>

---------------------------------------------------------------------------
(* Bounds *)

MaxChroms == 4      \* longest chromosome column given to create_chrom_ids
MaxSamples == 2     \* most sample files given to export_seg
MaxSegs == 2        \* most segments of one sample in export_seg
MaxThetaSegs == 4   \* most tumor segments given to export_theta
MaxCallSegs == 2    \* most segments given to segments2bed / segments2vcf
MaxAbsQ == 14       \* largest absolute copy number, in quarters (14 is 3.5)
MaxFiles == 2       \* most coverage files given to merge_samples / sample IDs
MaxRows == 2        \* most row tuples the merge is asked for
MaxFmtRows == 2     \* most merged rows given to fmt_cdt / fmt_jtv

ChromNames == {"chr1", "chr2", "chrX"}
SegChromNames == {"chr1", "chr2"}

SeqsUpTo(S, n) == UNION {[1..k -> S] : k \in 0..n}
Range(s) == {s[i] : i \in 1..Len(s)}

---------------------------------------------------------------------------
(* OrderedDict, as the sequence of its items in insertion order *)

Keys(m) == [i \in 1..Len(m) |-> m[i][1]]
KeySet(m) == {m[i][1] : i \in 1..Len(m)}
Contains(m, k) == k \in KeySet(m)
Lookup(m, k) == (CHOOSE i \in 1..Len(m) : m[i][1] = k)
Get(m, k) == m[Lookup(m, k)][2]

---------------------------------------------------------------------------
(* create_chrom_ids *)

\* A faulty variant: the index advances on every name, also on a repeated one.
chrom_ids_step_always_advance(st, chrom) ==
    IF ~Contains(st.mapping, chrom)
    THEN [mapping |-> Append(st.mapping, <<chrom, st.curr_idx>>),
          curr_idx |-> st.curr_idx + 1]
    ELSE [st EXCEPT !.curr_idx = st.curr_idx + 1]

\* The loop body, lines 151-153.
chrom_ids_step(st, chrom) ==
    IF ~Contains(st.mapping, chrom)
    THEN [mapping |-> Append(st.mapping, <<chrom, st.curr_idx>>),
          curr_idx |-> st.curr_idx + 1]
    ELSE st

RECURSIVE chrom_ids_fold(_, _)
chrom_ids_fold(st, chroms) ==
    IF chroms = <<>> THEN st
    ELSE chrom_ids_fold(chrom_ids_step(st, Head(chroms)), Tail(chroms))

\* The whole function: lines 148-154.
create_chrom_ids(chroms) ==
    chrom_ids_fold([mapping |-> <<>>, curr_idx |-> 1], chroms).mapping

IdsIdle ==
    /\ chromosome = <<>>
    /\ ids_i = 0
    /\ mapping = <<>>
    /\ curr_idx = 1
    /\ ids_pc = "idle"

IdsInit ==
    /\ chromosome \in SeqsUpTo(ChromNames, MaxChroms)
    /\ ids_i = 0
    /\ mapping = <<>>
    /\ curr_idx = 1
    /\ ids_pc = "loop"

IdsStep ==
    /\ ids_pc = "loop"
    /\ ids_i < Len(chromosome)
    /\ LET st == chrom_ids_step([mapping |-> mapping, curr_idx |-> curr_idx],
                                chromosome[ids_i + 1])
       IN /\ mapping' = st.mapping
          /\ curr_idx' = st.curr_idx
    /\ ids_i' = ids_i + 1
    /\ UNCHANGED <<chromosome, ids_pc>>
    /\ UNCHANGED notIds

IdsReturn ==
    /\ ids_pc = "loop"
    /\ ids_i = Len(chromosome)
    /\ ids_pc' = "returned"
    /\ UNCHANGED <<chromosome, ids_i, mapping, curr_idx>>
    /\ UNCHANGED notIds

---------------------------------------------------------------------------
(* export_seg *)

SegSamples == [chromosome : SeqsUpTo(SegChromNames, MaxSegs), probes : BOOLEAN]

HeaderProbes == <<"ID", "Chromosome", "Start", "End", "NumProbes", "Mean">>
HeaderPlain  == <<"ID", "Chromosome", "Start", "End", "Mean">>

\* The k-th segment of a sample: its coordinates, probe count and log2 are
\* copied to the row unchanged, so they are fixed by the position.
SegStart(k) == 100 * (k - 1)
SegEnd(k) == 100 * k
SegProbes(k) == 5 * k
SegLog2(k) == 0

\* core.assert_equal on the two key views: accepts equal name sets.
assert_equal(previous, current) == Range(previous) = Range(current)

\* A faulty variant: the later sample's names need only be known ones.
seg_verify_subset(ids, segments) ==
    Range(Keys(create_chrom_ids(segments.chromosome))) \subseteq Range(Keys(ids))

\* Lines 127-129: TRUE when the check passes.
seg_verify(ids, segments) ==
    assert_equal(Keys(ids), Keys(create_chrom_ids(segments.chromosome)))

\* A faulty variant: every row carries the probes field.
row2out_always_probes(sample_id, ids, segments, k) ==
    <<sample_id, Get(ids, segments.chromosome[k]), SegStart(k), SegEnd(k),
      SegProbes(k), SegLog2(k)>>

\* row2out, lines 133-141, of the sample's k-th row.
row2out(sample_id, ids, segments, k) ==
    IF segments.probes
    THEN <<sample_id, Get(ids, segments.chromosome[k]), SegStart(k), SegEnd(k),
           SegProbes(k), SegLog2(k)>>
    ELSE <<sample_id, Get(ids, segments.chromosome[k]), SegStart(k), SegEnd(k),
           SegLog2(k)>>

SegIdle ==
    /\ seg_read = <<>>
    /\ chrom_ids = <<>>
    /\ outheader = <<>>
    /\ outrows = <<>>
    /\ seg_pc = "idle"
    /\ seg_ret = <<>>

SegInit ==
    /\ seg_read = <<>>
    /\ chrom_ids = <<>>
    /\ outheader = <<>>
    /\ outrows = <<>>
    /\ seg_pc = "loop"
    /\ seg_ret = <<>>

\* One pass of the loop body, lines 121-142, that does not raise.
SegSample ==
    /\ seg_pc = "loop"
    /\ Len(seg_read) < MaxSamples
    /\ \E segments \in SegSamples :
         LET sample_id == Len(seg_read) + 1
             ids == IF chrom_ids = <<>>
                    THEN create_chrom_ids(segments.chromosome)
                    ELSE chrom_ids[1]
         IN /\ IF chrom_ids = <<>> THEN TRUE
               ELSE seg_verify(chrom_ids[1], segments)
            /\ seg_read' = Append(seg_read, segments)
            /\ chrom_ids' = <<ids>>
            /\ outheader' = <<IF segments.probes THEN HeaderProbes ELSE HeaderPlain>>
            /\ outrows' = outrows \o
                   [k \in 1..Len(segments.chromosome) |->
                        row2out(sample_id, ids, segments, k)]
    /\ UNCHANGED <<seg_pc, seg_ret>>
    /\ UNCHANGED notSeg

\* A pass whose assert_equal raises, lines 127-129.
SegSampleRaise ==
    /\ seg_pc = "loop"
    /\ Len(seg_read) < MaxSamples
    /\ chrom_ids # <<>>
    /\ \E segments \in SegSamples :
         /\ ~seg_verify(chrom_ids[1], segments)
         /\ seg_read' = Append(seg_read, segments)
    /\ seg_pc' = "raised"
    /\ UNCHANGED <<chrom_ids, outheader, outrows, seg_ret>>
    /\ UNCHANGED notSeg

\* Line 143, after the last file.  An encoder is given one or more samples,
\* so outheader is bound when the loop ends.
SegReturn ==
    /\ seg_pc = "loop"
    /\ seg_read # <<>>
    /\ seg_pc' = "returned"
    /\ seg_ret' = <<outheader[1], outrows>>
    /\ UNCHANGED <<seg_read, chrom_ids, outheader, outrows>>
    /\ UNCHANGED notSeg

---------------------------------------------------------------------------
(* export_theta *)

ThetaHeader == <<"#ID", "chrm", "start", "end", "tumorCount", "normalCount">>

\* Tumor segments: the name and the log2 vary; the k-th segment's coordinates
\* and probe count are fixed by its position.
ThetaSegs == [chromosome : ChromNames, log2 : {0, 1}]
ThetaProbes(k) == 10
RefMeanLog2(k) == 0

Pow2(n) == IF n = 0 THEN 1 ELSE IF n = 1 THEN 2 ELSE 4

\* logratio2count, lines 241-257, on a whole log2 ratio >= 0, where
\* segment_size * 2^log2 * 100 / 100 is whole and round() changes nothing.
logratio2count(segment_size, log2_ratio) == segment_size * Pow2(log2_ratio)

\* calculate_theta_fields, lines 228-270.  The row ID is the four numbers
\* the format string "start_%d_%d:end_%d_%d" is filled with.
calculate_theta_fields(seg, k, id) ==
    [row_id |-> <<id, SegStart(k), id, SegEnd(k)>>,
     chrm |-> id,
     start |-> SegStart(k),
     end |-> SegEnd(k),
     tumorCount |-> logratio2count(1000 * ThetaProbes(k), seg.log2),
     normalCount |-> logratio2count(1000 * ThetaProbes(k), RefMeanLog2(k))]

\* A faulty variant: prev_chrom is never stored.
theta_transition_forgets_prev(prev, id, chrom) ==
    IF <<chrom>> # prev
    THEN [prev_chrom |-> prev, chrom_id |-> id + 1]
    ELSE [prev_chrom |-> prev, chrom_id |-> id]

\* Lines 219-221.
theta_transition(prev, id, chrom) ==
    IF <<chrom>> # prev
    THEN [prev_chrom |-> <<chrom>>, chrom_id |-> id + 1]
    ELSE [prev_chrom |-> prev, chrom_id |-> id]

ThetaIdle ==
    /\ theta_in = <<>>
    /\ prev_chrom = <<>>
    /\ chrom_id = 0
    /\ theta_rows = <<>>
    /\ theta_pc = "idle"

ThetaInit ==
    /\ theta_in = <<>>
    /\ prev_chrom = <<>>
    /\ chrom_id = 0
    /\ theta_rows = <<>>
    /\ theta_pc = "loop"

\* One pass of the loop, lines 218-223.
ThetaSegment ==
    /\ theta_pc = "loop"
    /\ Len(theta_in) < MaxThetaSegs
    /\ \E seg \in ThetaSegs :
         LET t == theta_transition(prev_chrom, chrom_id, seg.chromosome)
         IN /\ prev_chrom' = t.prev_chrom
            /\ chrom_id' = t.chrom_id
            /\ theta_rows' = Append(theta_rows,
                   calculate_theta_fields(seg, Len(theta_in) + 1, t.chrom_id))
            /\ theta_in' = Append(theta_in, seg)
    /\ UNCHANGED theta_pc
    /\ UNCHANGED notTheta

\* Line 225.
ThetaReturn ==
    /\ theta_pc = "loop"
    /\ theta_pc' = "returned"
    /\ UNCHANGED <<theta_in, prev_chrom, chrom_id, theta_rows>>
    /\ UNCHANGED notTheta

---------------------------------------------------------------------------
(* segments2bed and segments2vcf *)

Ploidies == {1, 2, 3}
AbsVals == 0..MaxAbsQ        \* v = q / 4, a non-negative real

\* The k-th segment: the encoders copy its fields, so they are fixed by the
\* position.  The first segment starts at 0.
CallSeg(k) ==
    [chromosome |-> IF k = 1 THEN "chr1" ELSE "chr2",
     start |-> SegStart(k), end |-> SegEnd(k), probes |-> SegProbes(k)]
OwnSampleId == "S1"

\* round() of Python 2: to the nearest whole number, a tie away from zero.
RoundHalfAway(q) == (q + 2) \div 4

\* round() of Python 3 (and of a numpy float there): a tie to the even
\* neighbour.
RoundHalfEven(q) ==
    LET f == q \div 4
        r == q % 4
    IN IF r < 2 THEN f
       ELSE IF r > 2 THEN f + 1
       ELSE IF f % 2 = 0 THEN f ELSE f + 1

\* int(round(abs_val)), lines 185 and 323, under interpreter version v.
int_round(v, q) == IF v = 2 THEN RoundHalfAway(q) ELSE RoundHalfEven(q)

\* args.sample_id or segs.sample_id, line 175.
bed_label(arg, own) == IF arg # "" THEN arg ELSE own

\* A faulty variant: neutral regions are dropped also when asked for.
bed_emits_ignores_flag(show, n, p) == n # p

\* The test of line 187.
bed_emits(show, n, p) == show \/ n # p

\* The row of line 188.
bed_row(row, lbl, n) == <<row.chromosome, row.start, row.end, lbl, n>>

Max(a, b) == IF a >= b THEN a ELSE b

\* A faulty variant: the length of a deletion is left positive.
vcf_record_del_not_negated(row, n, p) ==
    LET svlen == row.end - row.start
    IN IF n > p
       THEN <<row.chromosome, Max(1, row.start), "DUP",
              [svtype |-> "DUP", end |-> row.end, svlen |-> svlen],
              "GT:GQ:CN:CNQ", <<"0/1", 0, n, row.probes>>>>
       ELSE <<row.chromosome, Max(1, row.start), "DEL",
              [svtype |-> "DEL", end |-> row.end, svlen |-> svlen],
              "GT:GQ", <<IF n = 0 THEN "1/1" ELSE "0/1", row.probes>>>>

\* The record of lines 328-355 for a segment with n # p.  INFO is kept as the
\* values its text is joined from, and the genotype likewise.
vcf_record(row, n, p) ==
    LET svlen == row.end - row.start
    IN IF n > p
       THEN <<row.chromosome, Max(1, row.start), "DUP",
              [svtype |-> "DUP", end |-> row.end, svlen |-> svlen],
              "GT:GQ:CN:CNQ", <<"0/1", 0, n, row.probes>>>>
       ELSE <<row.chromosome, Max(1, row.start), "DEL",
              [svtype |-> "DEL", end |-> row.end, svlen |-> svlen * (-1)],
              "GT:GQ", <<IF n = 0 THEN "1/1" ELSE "0/1", row.probes>>>>

CallIdle ==
    /\ py = 3
    /\ encoder = "none"
    /\ ploidy = 2
    /\ show_neutral = FALSE
    /\ arg_sample_id = ""
    /\ absolutes = <<>>
    /\ ncopies = <<>>
    /\ call_rows = <<>>
    /\ call_pc = "idle"

CallInit ==
    /\ py \in {2, 3}
    /\ encoder \in {"bed", "vcf"}
    /\ ploidy \in Ploidies
    /\ show_neutral \in (IF encoder = "bed" THEN BOOLEAN ELSE {FALSE})
    /\ arg_sample_id \in (IF encoder = "bed" THEN {"", "T1"} ELSE {""})
    /\ absolutes = <<>>
    /\ ncopies = <<>>
    /\ call_rows = <<>>
    /\ call_pc = "loop"

\* One pass of the loop of segments2bed, lines 184-188.
BedSegment ==
    /\ call_pc = "loop"
    /\ encoder = "bed"
    /\ Len(absolutes) < MaxCallSegs
    /\ \E abs_val \in AbsVals :
         LET row == CallSeg(Len(absolutes) + 1)
             n == int_round(py, abs_val)
         IN /\ absolutes' = Append(absolutes, abs_val)
            /\ ncopies' = Append(ncopies, n)
            /\ call_rows' =
                  IF bed_emits(show_neutral, n, ploidy)
                  THEN Append(call_rows,
                              bed_row(row, bed_label(arg_sample_id, OwnSampleId), n))
                  ELSE call_rows
    /\ UNCHANGED <<py, encoder, ploidy, show_neutral, arg_sample_id, call_pc>>
    /\ UNCHANGED notCall

\* One pass of the loop of segments2vcf, lines 322-355.
VcfSegment ==
    /\ call_pc = "loop"
    /\ encoder = "vcf"
    /\ Len(absolutes) < MaxCallSegs
    /\ \E abs_val \in AbsVals :
         LET row == CallSeg(Len(absolutes) + 1)
             n == int_round(py, abs_val)
         IN /\ absolutes' = Append(absolutes, abs_val)
            /\ ncopies' = Append(ncopies, n)
            /\ call_rows' =
                  IF n = ploidy
                  THEN call_rows
                  ELSE Append(call_rows, vcf_record(row, n, ploidy))
    /\ UNCHANGED <<py, encoder, ploidy, show_neutral, arg_sample_id, call_pc>>
    /\ UNCHANGED notCall

---------------------------------------------------------------------------
(* merge_samples, merge_rows, row_to_probe_coverage *)

\* A field of a parsed row is its text, a sequence of characters.
RowA  == [chrom |-> <<"1">>, start |-> <<"1", "0">>, end |-> <<"2", "0">>,
          gene |-> <<"G">>, coverage |-> <<"0", ".", "5">>]
RowB  == [RowA EXCEPT !.coverage = <<"-", "1", ".", "5">>]
RowC  == [RowA EXCEPT !.gene = <<"H">>, !.coverage = <<"2">>]
\* the same coordinates as RowA, written differently
RowD  == [RowA EXCEPT !.start = <<"0", "1", "0">>]
\* two rows of different fields whose label text is the same
RowE1 == [chrom |-> <<"1">>, start |-> <<"1", "0">>, end |-> <<"2", "0">>,
          gene |-> <<"G", ":", "1", "-", "2", ":", "G">>, coverage |-> <<"2">>]
RowE2 == [chrom |-> <<"1", ":", "1", "0", "-", "2", "0", ":", "G">>,
          start |-> <<"1">>, end |-> <<"2">>,
          gene |-> <<"G">>, coverage |-> <<"2">>]
MergeRows == {RowA, RowB, RowC, RowD, RowE1, RowE2}

DigitVal == ("0" :> 0) @@ ("1" :> 1) @@ ("2" :> 2) @@ ("3" :> 3) @@ ("4" :> 4)
            @@ ("5" :> 5) @@ ("6" :> 6) @@ ("7" :> 7) @@ ("8" :> 8) @@ ("9" :> 9)

RECURSIVE ParseNat(_, _)
ParseNat(acc, s) ==
    IF s = <<>> THEN acc ELSE ParseNat(10 * acc + DigitVal[Head(s)], Tail(s))

\* int(text) of a decimal numeral with an optional sign.
ParseInt(s) == IF Head(s) = "-" THEN 0 - ParseNat(0, Tail(s)) ELSE ParseNat(0, s)

\* float(text) of a numeral with at most one fractional digit, in tenths.
ParseFloat(s) ==
    LET neg == Head(s) = "-"
        body == IF neg THEN Tail(s) ELSE s
        dots == {i \in 1..Len(body) : body[i] = "."}
        mag == IF dots = {}
               THEN 10 * ParseNat(0, body)
               ELSE LET d == CHOOSE i \in dots : TRUE
                    IN 10 * ParseNat(0, SubSeq(body, 1, d - 1))
                       + ParseNat(0, SubSeq(body, d + 1, Len(body)))
    IN IF neg THEN 0 - mag ELSE mag

\* Lines 59-62: "%s:%s-%s:%s" % (chrom, start, end, gene) and the casts.
row_to_probe_coverage(row) ==
    <<[label |-> row.chrom \o <<":">> \o row.start \o <<"-">> \o row.end
                 \o <<":">> \o row.gene,
       chrom |-> row.chrom,
       start |-> ParseInt(row.start),
       end |-> ParseInt(row.end),
       gene |-> row.gene],
      ParseFloat(row.coverage)>>

\* core.check_unique: every ProbeInfo of the tuple must carry the same label;
\* the shared ProbeInfo is returned, else the validation error names `title`.
check_unique(items, title) ==
    IF \A i, j \in 1..Len(items) : items[i].label = items[j].label
    THEN [ok |-> TRUE, value |-> items[1]]
    ELSE [ok |-> FALSE, error |-> title]

\* A faulty variant: the probe infos are not compared; the first one is taken.
merge_rows_unchecked(rows) ==
    LET pairs == [i \in 1..Len(rows) |-> row_to_probe_coverage(rows[i])]
    IN [ok |-> TRUE,
        value |-> <<pairs[1][1]>> \o [i \in 1..Len(rows) |-> pairs[i][2]]]

\* Lines 51-54.
merge_rows(rows) ==
    LET pairs == [i \in 1..Len(rows) |-> row_to_probe_coverage(rows[i])]
        probe_infos == [i \in 1..Len(rows) |-> pairs[i][1]]
        coverages == [i \in 1..Len(rows) |-> pairs[i][2]]
        unique == check_unique(probe_infos, "probe Name")
    IN IF unique.ok
       THEN [ok |-> TRUE, value |-> <<unique.value>> \o coverages]
       ELSE [ok |-> FALSE, error |-> unique.error]

MergeIdle ==
    /\ nfiles = 0
    /\ merge_pc = "idle"
    /\ handles = <<>>
    /\ rows_in = <<>>
    /\ merged = <<>>
    /\ nyield = 0
    /\ merge_exc = ""

\* merge_samples(filenames) returns the generator; nothing has run yet.
MergeInit ==
    /\ nfiles \in 0..MaxFiles
    /\ merge_pc = "created"
    /\ handles = <<>>
    /\ rows_in = <<>>
    /\ merged = <<>>
    /\ nyield = 0
    /\ merge_exc = ""

\* The handles once lines 25-31 have run: the first next() opens every file.
Opened == IF merge_pc = "created" THEN [i \in 1..nfiles |-> "open"] ELSE handles

\* next(): zip gives a row tuple and merge_rows returns; the row is yielded
\* (lines 33-34).
MergeNextYield ==
    /\ merge_pc \in {"created", "suspended"}
    /\ nfiles >= 1
    /\ nyield < MaxRows
    /\ \E rows \in [1..nfiles -> MergeRows] :
         LET m == merge_rows(rows)
         IN /\ m.ok
            /\ rows_in' = rows
            /\ merged' = <<m.value>>
    /\ handles' = Opened
    /\ nyield' = nyield + 1
    /\ merge_pc' = "suspended"
    /\ UNCHANGED <<nfiles, merge_exc>>
    /\ UNCHANGED notMerge

\* next(): zip gives a row tuple and merge_rows raises; the error leaves the
\* generator at line 34 and lines 36-37 do not run.
MergeNextRaise ==
    /\ merge_pc \in {"created", "suspended"}
    /\ nfiles >= 1
    /\ nyield < MaxRows
    /\ \E rows \in [1..nfiles -> MergeRows] :
         LET m == merge_rows(rows)
         IN /\ ~m.ok
            /\ rows_in' = rows
            /\ merge_exc' = m.error
    /\ handles' = Opened
    /\ merge_pc' = "failed"
    /\ UNCHANGED <<nfiles, merged, nyield>>
    /\ UNCHANGED notMerge

\* next(): a stream is exhausted (or there is no stream); the loop ends and
\* lines 36-37 close every handle.
MergeNextStop ==
    /\ merge_pc \in {"created", "suspended"}
    /\ handles' = [i \in 1..Len(Opened) |-> "closed"]
    /\ merge_pc' = "done"
    /\ UNCHANGED <<nfiles, rows_in, merged, nyield, merge_exc>>
    /\ UNCHANGED notMerge

\* The consumer stops iterating: the generator is closed or dropped while
\* suspended at line 34 (or before it started); GeneratorExit is raised
\* there and lines 36-37 do not run.
MergeClose ==
    /\ merge_pc \in {"created", "suspended"}
    /\ merge_pc' = "closed"
    /\ UNCHANGED <<nfiles, handles, rows_in, merged, nyield, merge_exc>>
    /\ UNCHANGED notMerge

\* next() on a generator that has ended (returned, raised or was closed)
\* raises StopIteration and runs none of the function.
MergeNextFinished ==
    /\ merge_pc \in {"done", "failed", "closed", "open_failed"}
    /\ UNCHANGED mergeVars
    /\ UNCHANGED notMerge

\* The first next(): open() of the k-th file raises at line 28, with the
\* files before it open.
MergeOpenRaise ==
    /\ merge_pc = "created"
    /\ \E k \in 1..nfiles : handles' = [i \in 1..(k - 1) |-> "open"]
    /\ merge_exc' = "IOError"
    /\ merge_pc' = "open_failed"
    /\ UNCHANGED <<nfiles, rows_in, merged, nyield>>
    /\ UNCHANGED notMerge

---------------------------------------------------------------------------
(* The format table and the fmt_* functions *)

\* A faulty variant: the two commented entries are in the table.
EXPORT_FORMATS_with_stubs ==
    ("cdt" :> "fmt_cdt") @@ ("gct" :> "fmt_gct") @@ ("jtv" :> "fmt_jtv")
    @@ ("nexus-basic" :> "export_nexus_basic") @@ ("nexus-multi1" :> "fmt_multi")
    @@ ("seg" :> "export_seg") @@ ("theta" :> "export_theta")
    @@ ("vcf" :> "export_vcf")

\* Lines 360-369; the entries of lines 362 and 365 are commented out.
EXPORT_FORMATS ==
    ("cdt" :> "fmt_cdt") @@ ("jtv" :> "fmt_jtv")
    @@ ("nexus-basic" :> "export_nexus_basic") @@ ("seg" :> "export_seg")
    @@ ("theta" :> "export_theta") @@ ("vcf" :> "export_vcf")

Unimplemented == {"gct", "nexus-multi1"}
FormatNames == {"cdt", "gct", "jtv", "nexus-basic", "nexus-multi1", "seg", "theta",
                "vcf"}
SampleIdSet == {"s1", "s2"}
\* Merged rows for n samples: a probe and one value per sample.
FmtMerged(n) == {<<[label |-> l]>> \o [i \in 1..n |-> v] : l \in {"p", "q"}, v \in {0}}

\* Lines 69-79.  'ARRY' + str(i).zfill(3) + 'X', 'GENE%dX' % i and
\* 'IMAGE:%d' % i are kept as the parts they are built from.
fmt_cdt(sample_ids, rows) ==
    [header |-> <<"GID", "CLID", "NAME", "GWEIGHT">> \o sample_ids,
     rows |-> << <<"AID", "", "", "">>
                 \o [i \in 1..Len(sample_ids) |-> <<"ARRY", i - 1, "X">>] >>
              \o [i \in 1..Len(rows) |->
                    << <<"GENE", i - 1, "X">>, <<"IMAGE:", i - 1>>,
                       rows[i][1].label, 1 >> \o Tail(rows[i])]]

\* Lines 89-91.
fmt_jtv(sample_ids, rows) ==
    [header |-> <<"CloneID", "Name">> \o sample_ids,
     rows |-> [i \in 1..Len(rows) |->
                 <<"IMAGE:", rows[i][1].label>> \o Tail(rows[i])]]

\* Lines 83-84 and 95-96: the value NotImplemented is returned, not raised.
fmt_stub(sample_ids, rows) == [value |-> "NotImplemented"]

FmtIdle ==
    /\ selected = ""
    /\ callee = <<>>
    /\ fmt_ids = <<>>
    /\ fmt_rows = <<>>
    /\ fmt_result = <<>>
    /\ fmt_pc = "idle"

FmtInit ==
    /\ selected = ""
    /\ callee = <<>>
    /\ fmt_ids = <<>>
    /\ fmt_rows = <<>>
    /\ fmt_result = <<>>
    /\ fmt_pc = "start"

\* A format is selected by name: EXPORT_FORMATS[name].  A name the table
\* does not hold is a missing key.
FmtLookup ==
    /\ fmt_pc = "start"
    /\ \E name \in FormatNames, ids \in SeqsUpTo(SampleIdSet, MaxFiles) :
         \E rows \in SeqsUpTo(FmtMerged(Len(ids)), MaxFmtRows) :
            /\ selected' = name
            /\ fmt_ids' = ids
            /\ fmt_rows' = rows
            /\ IF name \in DOMAIN EXPORT_FORMATS
               THEN /\ callee' = <<EXPORT_FORMATS[name]>>
                    /\ fmt_result' = <<>>
                    /\ fmt_pc' = "resolved"
               ELSE /\ callee' = <<>>
                    /\ fmt_result' = <<[raised |-> "KeyError"]>>
                    /\ fmt_pc' = "raised"
    /\ UNCHANGED notFmt

\* The function found is called with the sample IDs and the merged rows.
\* (The export_* entries take other arguments; their calls are the other
\* specifications.)
FmtCall ==
    /\ fmt_pc = "resolved"
    /\ callee[1] \in {"fmt_cdt", "fmt_jtv", "fmt_gct", "fmt_multi"}
    /\ fmt_result' =
          << IF callee[1] = "fmt_cdt" THEN fmt_cdt(fmt_ids, fmt_rows)
             ELSE IF callee[1] = "fmt_jtv" THEN fmt_jtv(fmt_ids, fmt_rows)
             ELSE fmt_stub(fmt_ids, fmt_rows) >>
    /\ fmt_pc' = "returned"
    /\ UNCHANGED <<selected, callee, fmt_ids, fmt_rows>>
    /\ UNCHANGED notFmt

\* fmt_gct or fmt_multi called by name, not through the table.
FmtCallStub ==
    /\ fmt_pc = "start"
    /\ \E f \in {"fmt_gct", "fmt_multi"} :
         /\ callee' = <<f>>
         /\ fmt_result' = <<fmt_stub(<<>>, <<>>)>>
    /\ fmt_pc' = "returned"
    /\ UNCHANGED <<selected, fmt_ids, fmt_rows>>
    /\ UNCHANGED notFmt

---------------------------------------------------------------------------
(* Specifications *)

InitIds == IdsInit /\ SegIdle /\ ThetaIdle /\ CallIdle /\ MergeIdle /\ FmtIdle
NextIds == IdsStep \/ IdsReturn
SpecIds == InitIds /\ [][NextIds]_vars

InitSeg == SegInit /\ IdsIdle /\ ThetaIdle /\ CallIdle /\ MergeIdle /\ FmtIdle
NextSeg == SegSample \/ SegSampleRaise \/ SegReturn
SpecSeg == InitSeg /\ [][NextSeg]_vars

InitTheta == ThetaInit /\ IdsIdle /\ SegIdle /\ CallIdle /\ MergeIdle /\ FmtIdle
NextTheta == ThetaSegment \/ ThetaReturn
SpecTheta == InitTheta /\ [][NextTheta]_vars

InitCall == CallInit /\ IdsIdle /\ SegIdle /\ ThetaIdle /\ MergeIdle /\ FmtIdle
NextCall == BedSegment \/ VcfSegment
SpecCall == InitCall /\ [][NextCall]_vars

InitMerge == MergeInit /\ IdsIdle /\ SegIdle /\ ThetaIdle /\ CallIdle /\ FmtIdle
NextMerge ==
    \/ MergeNextYield \/ MergeNextRaise \/ MergeNextStop \/ MergeClose
    \/ MergeOpenRaise \/ MergeNextFinished
SpecMerge == InitMerge /\ [][NextMerge]_vars

InitFmt == FmtInit /\ IdsIdle /\ SegIdle /\ ThetaIdle /\ CallIdle /\ MergeIdle
NextFmt == FmtLookup \/ FmtCall \/ FmtCallStub
SpecFmt == InitFmt /\ [][NextFmt]_vars

---------------------------------------------------------------------------
(* Claims *)

FirstOcc(s, c) == CHOOSE i \in 1..Len(s) : s[i] = c /\ \A j \in 1..(i - 1) : s[j] # c
RankByFirstOcc(s, c) ==
    Cardinality({d \in Range(s) : FirstOcc(s, d) <= FirstOcc(s, c)})
Prefix(s, n) == SubSeq(s, 1, n)

\* C8: create_chrom_ids maps exactly the distinct names of the column walked
\* so far, each once; the IDs are 1..k in insertion order with no gap or
\* repeat; a name's ID is its rank by first occurrence, so a repeated name
\* keeps its first ID; the empty column gives the empty mapping.
C8_ChromIdsAreFirstSeenRanks ==
    ids_pc \in {"loop", "returned"} =>
        LET seen == Prefix(chromosome, ids_i)
        IN /\ ids_pc = "returned" => ids_i = Len(chromosome)
           /\ KeySet(mapping) = Range(seen)
           /\ Len(mapping) = Cardinality(Range(seen))
           /\ {mapping[j][2] : j \in 1..Len(mapping)} = 1..Cardinality(Range(seen))
           /\ \A j \in 1..Len(mapping) : mapping[j][2] = j
           /\ \A c \in Range(seen) : Get(mapping, c) = RankByFirstOcc(seen, c)
           /\ curr_idx = Len(mapping) + 1
           /\ seen = <<>> => mapping = <<>>

\* C8 witness: a column with a repeated name and three distinct names has
\* been mapped.
C8_Witness ==
    /\ ids_pc = "returned"
    /\ Len(chromosome) = 4
    /\ chromosome[1] = chromosome[3]
    /\ Len(mapping) = 3

SampleNames(i) == Range(seg_read[i].chromosome)
SomeLaterSampleDiffers ==
    \E i \in 2..Len(seg_read) : SampleNames(i) # SampleNames(1)

\* C6: export_seg raises, with nothing returned, exactly when a sample after
\* the first has a name set different from the first sample's; it returns a
\* header and rows otherwise, whatever the order of the names.
C6_SegFailsIffNameSetsDiffer ==
    seg_pc # "idle" =>
        /\ seg_pc = "raised" <=> SomeLaterSampleDiffers
        /\ seg_pc = "raised" => seg_ret = <<>>
        /\ seg_pc = "returned" => seg_ret # <<>> /\ seg_ret[2] = outrows
        /\ seg_pc = "loop" => seg_ret = <<>>

\* C6 witness: two samples with the same names in a different order were
\* exported.
C6_Witness ==
    /\ seg_pc = "returned"
    /\ Len(seg_read) = 2
    /\ seg_read[1].chromosome = <<"chr1", "chr2">>
    /\ seg_read[2].chromosome = <<"chr2", "chr1">>
    /\ Len(seg_ret[2]) = 4

\* C10: every row export_seg returns has as many fields as the returned
\* header.
C10_RowsMatchHeader ==
    seg_pc = "returned" =>
        \A r \in 1..Len(seg_ret[2]) : Len(seg_ret[2][r]) = Len(seg_ret[1])

ThetaIds == [i \in 1..Len(theta_rows) |-> theta_rows[i].chrm]
ThetaRuns ==
    Cardinality({i \in 1..Len(theta_in) :
                    i = 1 \/ theta_in[i].chromosome # theta_in[i - 1].chromosome})

\* C7: export_theta numbers the segments by transition: 1 for the first, the
\* previous ID for the same name as the previous segment and one more
\* otherwise; so the IDs never decrease, the last ID is the number of maximal
\* runs of one name, and two separated runs of one name get different IDs.
C7_ThetaIdsByTransition ==
    theta_pc \in {"loop", "returned"} =>
        /\ Len(theta_rows) = Len(theta_in)
        /\ theta_rows # <<>> => ThetaIds[1] = 1
        /\ \A i \in 2..Len(theta_rows) :
              ThetaIds[i] = IF theta_in[i].chromosome = theta_in[i - 1].chromosome
                            THEN ThetaIds[i - 1] ELSE ThetaIds[i - 1] + 1
        /\ \A i, j \in 1..Len(theta_rows) : i <= j => ThetaIds[i] <= ThetaIds[j]
        /\ theta_rows # <<>> => ThetaIds[Len(theta_rows)] = ThetaRuns
        /\ chrom_id = ThetaRuns
        /\ \A i, j \in 1..Len(theta_rows) :
              (/\ i < j
               /\ theta_in[i].chromosome = theta_in[j].chromosome
               /\ \E k \in i..j : theta_in[k].chromosome # theta_in[i].chromosome)
              => ThetaIds[i] # ThetaIds[j]

\* C7 witness: chr1, chr2, chr1 were numbered 1, 2, 3.
C7_Witness ==
    /\ theta_pc = "returned"
    /\ Len(theta_in) = 3
    /\ theta_in[1].chromosome = "chr1"
    /\ theta_in[2].chromosome = "chr2"
    /\ theta_in[3].chromosome = "chr1"
    /\ ThetaIds = <<1, 2, 3>>

IsNearest(n, q) == 4 * n - q <= 2 /\ q - 4 * n <= 2
Emitted(keep(_)) == {i \in 1..Len(absolutes) : keep(i)}
PlaceIn(S, i) == Cardinality({j \in S : j <= i})

BedKept(i) == show_neutral \/ ncopies[i] # ploidy
BedLabel == IF arg_sample_id = "" THEN OwnSampleId ELSE arg_sample_id

\* C3: segments2bed yields a row for a segment exactly when show_neutral is
\* set or the segment's whole copy number, a nearest whole number to v,
\* differs from the ploidy; the row is (chromosome, start, end, label, that
\* number), and the rows come in segment order.
C3_BedRowIffShownOrNotNeutral ==
    (call_pc = "loop" /\ encoder = "bed") =>
        /\ Len(ncopies) = Len(absolutes)
        /\ \A i \in 1..Len(absolutes) : IsNearest(ncopies[i], absolutes[i])
        /\ Len(call_rows) = Cardinality(Emitted(BedKept))
        /\ \A i \in Emitted(BedKept) :
              call_rows[PlaceIn(Emitted(BedKept), i)] =
                  <<CallSeg(i).chromosome, CallSeg(i).start, CallSeg(i).end,
                    BedLabel, ncopies[i]>>

\* C3 witness: with show_neutral off, a neutral segment was suppressed and
\* a later one was emitted.
C3_Witness ==
    /\ encoder = "bed"
    /\ ~show_neutral
    /\ Len(absolutes) = 2
    /\ ncopies[1] = ploidy
    /\ ncopies[2] # ploidy
    /\ Len(call_rows) = 1

VcfKept(i) == ncopies[i] # ploidy

\* C4: segments2vcf yields nothing for a segment whose whole copy number
\* equals the ploidy and one record otherwise: DUP with SVLEN = end - start
\* > 0 above the ploidy, DEL with SVLEN = -(end - start) < 0 below it.
C4_VcfOneSignedRecordPerNonNeutral ==
    (call_pc = "loop" /\ encoder = "vcf") =>
        /\ Len(ncopies) = Len(absolutes)
        /\ \A i \in 1..Len(absolutes) : IsNearest(ncopies[i], absolutes[i])
        /\ Len(call_rows) = Cardinality(Emitted(VcfKept))
        /\ \A i \in Emitted(VcfKept) :
              LET rec == call_rows[PlaceIn(Emitted(VcfKept), i)]
                  len == CallSeg(i).end - CallSeg(i).start
              IN /\ rec[1] = CallSeg(i).chromosome
                 /\ rec[4].end = CallSeg(i).end
                 /\ rec[3] \in {"DUP", "DEL"}
                 /\ rec[4].svtype = rec[3]
                 /\ rec[3] = "DUP" <=> ncopies[i] > ploidy
                 /\ rec[3] = "DEL" <=> ncopies[i] < ploidy
                 /\ rec[3] = "DUP" => rec[4].svlen = len /\ rec[4].svlen > 0
                 /\ rec[3] = "DEL" => rec[4].svlen = 0 - len /\ rec[4].svlen < 0

\* C4 witness: a deletion and a duplication were both recorded.
C4_Witness ==
    /\ encoder = "vcf"
    /\ Len(call_rows) = 2
    /\ call_rows[1][3] = "DEL"
    /\ call_rows[2][3] = "DUP"

\* C5: in both encoders ncopies is v rounded to the nearest whole number
\* with a tie away from zero.
C5_TiesRoundAwayFromZero ==
    call_pc = "loop" =>
        \A i \in 1..Len(absolutes) : ncopies[i] = (absolutes[i] + 2) \div 4

AllClosed == \A i \in 1..Len(handles) : handles[i] = "closed"

\* C1: however the merge ends (the rows run out, the consumer stops early,
\* merge_rows fails), every handle it opened is closed.
C1_HandlesClosedAtEveryEnd ==
    merge_pc \in {"done", "closed", "failed"} => AllClosed

RowLabel(row) ==
    row.chrom \o <<":">> \o row.start \o <<"-">> \o row.end \o <<":">> \o row.gene
LabelsIn == {RowLabel(rows_in[i]) : i \in 1..Len(rows_in)}

C2_LastMerge ==
    (merge_pc \in {"suspended", "failed"} /\ rows_in # <<>>) =>
        IF Cardinality(LabelsIn) > 1
        THEN merge_pc = "failed" /\ merge_exc = "probe Name"
        ELSE /\ merge_pc = "suspended"
             /\ merge_exc = ""
             /\ Len(merged[1]) = nfiles + 1
             /\ merged[1][1].label \in LabelsIn
             /\ merged[1][1] = row_to_probe_coverage(rows_in[1])[1]
             /\ \A i \in 1..nfiles :
                   merged[1][i + 1] = ParseFloat(rows_in[i].coverage)

\* C2: merge_rows fails with the "probe Name" error when two rows of the
\* tuple have different labels, and otherwise returns the ProbeInfo with the
\* shared label followed by the coverages in stream order; once the error
\* is raised the merge yields no further row.
C2_MergeRowsChecksLabels ==
    /\ []C2_LastMerge
    /\ [][merge_pc = "failed" =>
            (merge_pc' = "failed" /\ merged' = merged /\ nyield' = nyield)]_vars

\* C2 witness: one row was merged from two streams with different
\* coverages, and the next tuple raised the mismatch.
C2_Witness ==
    /\ merge_pc = "failed"
    /\ merge_exc = "probe Name"
    /\ nfiles = 2
    /\ nyield = 1
    /\ merged[1][2] # merged[1][3]

=============================================================================
